---- MODULE Spec2Model ----
(***************************************************************************)
(* Model of the MeetLinkApi service (src/index.js): the OAuth2 login and   *)
(* callback handlers with their in-memory state store and periodic sweep,  *)
(* and the create-meeting handler with its token lookup, refresh and event *)
(* insertion.  Time is counted in whole minutes since the epoch; every     *)
(* handler is cut at its await points, so that requests interleave exactly *)
(* where the event loop lets them.                                         *)
(*                                                                         *)
(* The provider (getToken, refreshToken, events.insert) and the document   *)
(* store are outside the program: each call may succeed or throw.  The     *)
(* database handle is taken to be connected, as it is once the server      *)
(* listens (lines 352-363), so ensureDbConnection passes every request on. *)
(* Of a token document the model keeps userId and tokens; the bookkeeping  *)
(* dates lastUpdated and createdAt are never read by the program and are   *)
(* left out.                                                               *)
(***************************************************************************)
EXTENDS Integers, Sequences, FiniteSets, TLC

(* ---------------------------------------------------------------- bounds *)

\* The clock value at which the process starts (minutes since the epoch).
StartClock == 1

\* The clock stops advancing here.
MaxTime == 4

\* The provider mints at most this many token sets in one run.
MaxTokens == 2

\* Lifetime, in minutes, of an access token the provider issues.  The
\* provider's tokens outlive the 5-minute grace period (Google: one hour).
TokenLifetime == 7

\* Request slots: the requests that can be in flight at the same time.
Reqs == {1, 2}

\* The values Math.random().toString(36).substring(2) can produce, in the
\* order the model hands them out.
StateSeq == <<"s1", "s2">>
StateVals == {StateSeq[i] : i \in 1..Len(StateSeq)}

(* ------------------------------------------------------ program constants *)

\* index.js:93   5 * 60 * 1000 ms
GracePeriod == 5
\* index.js:301  2 * 60 * 1000 ms
MinLead == 2
\* index.js:336  10 * 60 * 1000 ms
StateWindow == 10
\* index.js:340  5 * 60 * 1000 ms
SweepInterval == 5

UserId == "default-user"

(* ------------------------------------------------------------- JS values *)

\* Date.parse of a string that is no date.
NaN == -1
\* A request field that is undefined (or the empty string).
Absent == -2
\* A non-empty string that is not a date.
Unparseable == -3

\* Date.parse(s): a date string is represented by its time value.
DateParse(s) == IF s >= 0 THEN s ELSE NaN

\* !x for a number x: 0 and NaN are falsy.
FalsyNum(x) == x = 0 \/ x = NaN

\* !s for a request string: undefined and "" are falsy.
FalsyStr(s) == s = Absent

\* /\s/ and "@" classes of the attendee pattern.
IsSpaceOrAt(ch) == ch = " " \/ ch = "@"

\* /^[^\s@]+@[^\s@]+\.[^\s@]+$/.test(s), s a sequence of characters:
\* s = A @ B . C with A, B, C non-empty and free of whitespace and "@".
EmailPattern(s) ==
  \E i \in 1..Len(s) : \E j \in 1..Len(s) :
    /\ s[i] = "@"
    /\ s[j] = "."
    /\ 1 < i
    /\ i + 1 < j
    /\ j < Len(s)
    /\ \A k \in 1..Len(s) : k # i => ~IsSpaceOrAt(s[k])

(* ----------------------------------------------------------- token store *)

\* tokenDoc.tokens === null / undefined.
NullTokens == [access_token |-> 0, refresh_token |-> 0, expiry_date |-> 0]

\* findOne's null.
NullDoc == [userId |-> "", tokens |-> NullTokens]

Matching(coll, userId) == {i \in 1..Len(coll) : coll[i].userId = userId}

FirstMatch(coll, userId) ==
  CHOOSE i \in Matching(coll, userId) : \A j \in Matching(coll, userId) : i <= j

\* db.collection("tokens").findOne({ userId })
FindOne(coll, userId) ==
  IF Matching(coll, userId) = {} THEN NullDoc ELSE coll[FirstMatch(coll, userId)]

\* Mutant of UpdateOne: the document is inserted, whatever the collection holds.
UpdateOneInserts(coll, userId, toks, upsert) ==
  Append(coll, [userId |-> userId, tokens |-> toks])

\* db.collection("tokens").updateOne({ userId }, { $set: { tokens } }, { upsert })
UpdateOne(coll, userId, toks, upsert) ==
  IF Matching(coll, userId) # {}
    THEN [coll EXCEPT ![FirstMatch(coll, userId)].tokens = toks]
    ELSE IF upsert THEN Append(coll, [userId |-> userId, tokens |-> toks])
                   ELSE coll

\* Mutant of isTokenExpired: the comparison is turned around.
isTokenExpiredInverted(toks, t) ==
  IF toks = NullTokens \/ toks.expiry_date = 0
    THEN TRUE
    ELSE t <= toks.expiry_date - GracePeriod

\* isTokenExpired(tokens) evaluated at clock value t.
isTokenExpired(toks, t) ==
  IF toks = NullTokens \/ toks.expiry_date = 0
    THEN TRUE
    ELSE t >= toks.expiry_date - GracePeriod


(* ------------------------------------------------------ request contents *)

Good == <<"a", "@", "b", ".", "c">>
NoAt == <<"a", "b", ".", "c">>
NoDot == <<"a", "@", "b">>
Spaced == <<"a", " ", "@", "b", ".", "c">>

\* req.body.attendees: undefined, a string, or an array of strings.
AttAbsent == [kind |-> "absent", items |-> <<>>]
AttString == [kind |-> "string", items |-> <<Good>>]
Att(items) == [kind |-> "array", items |-> items]

\* A body that passes validation, starting at minute t.
BaseBody(t) ==
  [summary |-> "s", startTime |-> t, endTime |-> t + 30, attendees |-> Att(<<Good>>)]

NoBody == [summary |-> "", startTime |-> Absent, endTime |-> Absent, attendees |-> AttAbsent]

\* Start times a request may ask for: minutes within and beyond the run.
StartTimes == {StartClock + 3, MaxTime + MinLead + 1}

\* The request bodies the model sends to POST /api/create-meeting.
Bodies ==
  {BaseBody(t) : t \in StartTimes}
    \cup {[BaseBody(MaxTime + MinLead + 1) EXCEPT !.summary = ""],
          [BaseBody(MaxTime + MinLead + 1) EXCEPT !.startTime = Absent],
          [BaseBody(MaxTime + MinLead + 1) EXCEPT !.startTime = Unparseable],
          [BaseBody(MaxTime + MinLead + 1) EXCEPT !.startTime = 0],
          [BaseBody(MaxTime + MinLead + 1) EXCEPT !.endTime = Absent],
          [BaseBody(MaxTime + MinLead + 1) EXCEPT !.endTime = Unparseable]}
    \cup {[BaseBody(MaxTime + MinLead + 1) EXCEPT !.attendees = a] :
            a \in {AttAbsent, AttString, Att(<<>>), Att(<<NoAt>>),
                   Att(<<Good, NoDot>>), Att(<<Spaced>>)}}

(* -------------------------------------------------------------- responses *)

NoResp ==
  [status |-> 0, error |-> "", details |-> "", redirect |-> "", meetLink |-> "",
   currentTime |-> 0, earliestPossibleStart |-> 0]

Json(status, error, details) ==
  [NoResp EXCEPT !.status = status, !.error = error, !.details = details]

Redirect(to) ==
  [NoResp EXCEPT !.status = 302, !.redirect = to]

MeetLink(link) ==
  [NoResp EXCEPT !.status = 200, !.meetLink = link]

\* Lines 304-309: the lead-time answer, with the clock value t of the check.
TooSoon(t) ==
  [Json(400, "Start time must be at least 2 minutes from now", "")
     EXCEPT !.currentTime = t, !.earliestPossibleStart = t + MinLead]

\* Mutant of validateMeetingInput: the dates are not looked at.
validateMeetingInputDatesUnchecked(body) ==
  IF \/ body.summary = ""
     \/ FalsyStr(body.startTime)
     \/ FalsyStr(body.endTime)
     \/ body.attendees.kind = "absent"
    THEN Json(400, "Missing required fields", "")
  ELSE IF \/ body.attendees.kind # "array"
          \/ ~(\A k \in 1..Len(body.attendees.items) : EmailPattern(body.attendees.items[k]))
    THEN Json(400, "Invalid attendees format", "")
  ELSE NoResp

\* validateMeetingInput: the 400 response it sends, or NoResp when it calls next().
validateMeetingInput(body) ==
  IF \/ body.summary = ""
     \/ FalsyStr(body.startTime)
     \/ FalsyStr(body.endTime)
     \/ body.attendees.kind = "absent"
    THEN Json(400, "Missing required fields", "")
  ELSE IF FalsyNum(DateParse(body.startTime)) \/ FalsyNum(DateParse(body.endTime))
    THEN Json(400, "Invalid date format", "")
  ELSE IF \/ body.attendees.kind # "array"
          \/ ~(\A k \in 1..Len(body.attendees.items) : EmailPattern(body.attendees.items[k]))
    THEN Json(400, "Invalid attendees format", "")
  ELSE NoResp

(* ------------------------------------------------------------------ state *)

VARIABLES
  now,         \* Date.now(), in minutes
  nextSweep,   \* when the setInterval callback fires next
  stateStore,  \* the Map state -> issue time
  used,        \* history: the state values a callback has consumed since they were last issued
  swept,       \* history: the state values the sweep has removed since they were last issued
  tokensColl,  \* the "tokens" collection, a sequence of documents
  minted,      \* how many token sets the provider has issued
  granted,     \* history: the access tokens getToken has answered with
  req          \* the requests in flight, by slot

vars == <<now, nextSweep, stateStore, used, swept, tokensColl, minted, granted, req>>

Idle ==
  [kind |-> "none", pc |-> "idle", state |-> "", code |-> FALSE, body |-> NoBody,
   doc |-> NullTokens, cred |-> NullTokens, resp |-> NoResp, calls |-> {}]

\* A new request takes the lowest free slot (slots are interchangeable).
Free(r) == req[r].pc = "idle" /\ \A q \in Reqs : q < r => req[q].pc # "idle"

\* res.json / res.redirect: the handler returns and its locals are gone.
Done(rec, resp) ==
  [rec EXCEPT !.pc = "done", !.resp = resp, !.doc = NullTokens, !.cred = NullTokens]

\* Token sets the store can hold when the process starts: the store is durable.
\* They carry the provider's token number 1; the tokens issued later count on.
InitTokens ==
  {NullTokens}
    \cup {[access_token |-> 1, refresh_token |-> rt, expiry_date |-> e] :
            rt \in {0, 1}, e \in {0, StartClock + 2, StartClock + GracePeriod + 2}}

Init ==
  /\ now = StartClock
  /\ nextSweep = StartClock + SweepInterval
  /\ stateStore = [v \in {} |-> 0]
  /\ used = {}
  /\ swept = {}
  /\ tokensColl \in {<<>>} \cup {<<[userId |-> UserId, tokens |-> t]>> : t \in InitTokens}
  /\ minted = 1
  /\ granted = {}
  /\ req = [r \in Reqs |-> Idle]


(* ---------------------------------------------------------- the provider *)

\* A token set the provider issues at clock value t: a fresh access token,
\* the refresh token rt (0: none in the response), expiring a lifetime later.
Issue(n, rt, t) == [access_token |-> n, refresh_token |-> rt, expiry_date |-> t + TokenLifetime]

(* ------------------------------------------------------------ GET /api/login *)

MapSet(m, k, v) == [x \in DOMAIN m \cup {k} |-> IF x = k THEN v ELSE m[x]]
MapDelete(m, ks) == [x \in DOMAIN m \ ks |-> m[x]]

\* The random value is one no live entry carries; which one is immaterial, so
\* the least such value stands for all.
Fresh(v) ==
  \E i \in 1..Len(StateSeq) :
    /\ StateSeq[i] = v
    /\ v \notin DOMAIN stateStore
    /\ \A j \in 1..(i - 1) : StateSeq[j] \in DOMAIN stateStore

\* app.get("/api/login"): the whole handler is synchronous.
Login(v) ==
  /\ Fresh(v)
  /\ stateStore' = MapSet(stateStore, v, now)
  /\ used' = used \ {v}
  /\ swept' = swept \ {v}
  /\ UNCHANGED <<now, nextSweep, tokensColl, minted, granted, req>>

(* ------------------------------------------------------ GET /api/oauth2callback *)

\* Mutant of StateRejected: only a missing state is turned away.
StateRejectedIfMissing(st, store) == st = ""

\* Line 218: !state || !stateStore.has(state)
StateRejected(st, store) == st = "" \/ st \notin DOMAIN store

\* Mutant of Consume: the entry is left in the map.
ConsumeForgotten(store, st) == store

\* Line 222: stateStore.delete(state)
Consume(store, st) == MapDelete(store, {st})

\* Lines 216-229: the state check, the delete, the code check, and the call
\* of getToken, up to the first await.
CallbackArrive(r, st, code) ==
  /\ Free(r)
  /\ LET rec == [Idle EXCEPT !.kind = "callback", !.state = st, !.code = code] IN
     IF StateRejected(st, stateStore)
       THEN /\ req' = [req EXCEPT ![r] = Done(rec, Json(400, "Invalid state parameter", ""))]
            /\ UNCHANGED <<stateStore, used>>
       ELSE /\ stateStore' = Consume(stateStore, st)
            /\ used' = used \cup {st}
            /\ req' = [req EXCEPT ![r] =
                 IF ~code
                   THEN Done(rec, Json(400, "Authorization code is missing", ""))
                   ELSE [rec EXCEPT !.pc = "getToken", !.calls = {"getToken"}]]
  /\ UNCHANGED <<now, nextSweep, swept, tokensColl, minted, granted>>

\* Line 229 resumes: getToken answers with tokens, or throws (line 244).
CallbackExchange(r) ==
  /\ req[r].pc = "getToken"
  /\ \/ /\ minted <= MaxTokens
        /\ \E rt \in {0, minted + 1} :
             req' = [req EXCEPT ![r].pc = "cbWrite",
                                ![r].cred = Issue(minted + 1, rt, now),
                                ![r].calls = @ \cup {"updateOne"}]
        /\ minted' = minted + 1
        /\ granted' = granted \cup {minted + 1}
     \/ /\ req' = [req EXCEPT ![r] = Done(@, Redirect("/api/auth-error"))]
        /\ UNCHANGED <<minted, granted>>
  /\ UNCHANGED <<now, nextSweep, stateStore, used, swept, tokensColl>>

\* Lines 231-243 resume: the upsert lands, or the store throws (line 244).
CallbackStore(r) ==
  /\ req[r].pc = "cbWrite"
  /\ \/ /\ tokensColl' = UpdateOne(tokensColl, UserId, req[r].cred, TRUE)
        /\ req' = [req EXCEPT ![r] = Done(@, Redirect("/api/auth-success"))]
     \/ /\ req' = [req EXCEPT ![r] = Done(@, Redirect("/api/auth-error"))]
        /\ UNCHANGED tokensColl
  /\ UNCHANGED <<now, nextSweep, stateStore, used, swept, minted, granted>>

(* ------------------------------------------------------ POST /api/create-meeting *)

\* Mutant of Proceed: the event goes out with the tokens the request had read.
ProceedWithReadTokens(rec, cred, t) ==
  IF DateParse(rec.body.startTime) < t + MinLead
    THEN Done([rec EXCEPT !.cred = cred], TooSoon(t))
    ELSE [rec EXCEPT !.cred = rec.doc, !.pc = "insert", !.calls = @ \cup {"insert"}]

\* Mutant of Proceed: the start time is compared with the clock alone.
ProceedWithoutLead(rec, cred, t) ==
  IF DateParse(rec.body.startTime) < t
    THEN Done([rec EXCEPT !.cred = cred], TooSoon(t))
    ELSE [rec EXCEPT !.cred = cred, !.pc = "insert", !.calls = @ \cup {"insert"}]

\* Mutant of Proceed: the event is submitted before the start time is checked.
ProceedSubmitsFirst(rec, cred, t) ==
  IF DateParse(rec.body.startTime) < t + MinLead
    THEN Done([rec EXCEPT !.cred = cred, !.calls = @ \cup {"insert"}], TooSoon(t))
    ELSE [rec EXCEPT !.cred = cred, !.pc = "insert", !.calls = @ \cup {"insert"}]

\* Lines 296-321 (and 289): setCredentials, the lead-time check against the
\* clock, then createGoogleMeet up to the await of events.insert.
Proceed(rec, cred, t) ==
  IF DateParse(rec.body.startTime) < t + MinLead
    THEN Done([rec EXCEPT !.cred = cred], TooSoon(t))
    ELSE [rec EXCEPT !.cred = cred, !.pc = "insert", !.calls = @ \cup {"insert"}]

\* Mutant of NoCredentials: a missing document is not noticed.
NoCredentialsTokensOnly(doc) == doc # NullDoc /\ doc.tokens = NullTokens

\* Line 266: !tokenDoc || !tokenDoc.tokens
NoCredentials(doc) == doc = NullDoc \/ doc.tokens = NullTokens

\* Mutant of RefreshFailed: the catch swallows the error and the handler goes
\* on with the tokens it read.
RefreshFailedIgnored(rec) == Proceed(rec, rec.doc, now)

\* Lines 290-294: the catch around the refresh and the update.
RefreshFailed(rec) == Done(rec, Json(401, "Session expired", ""))

\* Lines 97-127 and 259-264: validation, then the call of findOne.
MeetingArrive(r, body) ==
  /\ Free(r)
  /\ LET rec == [Idle EXCEPT !.kind = "create", !.body = body] IN
     req' = [req EXCEPT ![r] =
       IF validateMeetingInput(body) # NoResp
         THEN Done(rec, validateMeetingInput(body))
         ELSE [rec EXCEPT !.pc = "findOne", !.calls = {"findOne"}]]
  /\ UNCHANGED <<now, nextSweep, stateStore, used, swept, tokensColl, minted, granted>>

\* Lines 262-297 resume: findOne answers (or throws, line 322); the record is
\* checked, and either refreshToken is called or the stored tokens are used.
MeetingLoaded(r) ==
  /\ req[r].pc = "findOne"
  /\ \/ LET doc == FindOne(tokensColl, UserId) IN
        req' = [req EXCEPT ![r] =
          IF NoCredentials(doc)
            THEN Done(@, Json(401, "Authentication required", ""))
          ELSE IF isTokenExpired(doc.tokens, now)
            THEN [@ EXCEPT !.doc = doc.tokens, !.pc = "refresh", !.calls = @ \cup {"refresh"}]
          ELSE Proceed([@ EXCEPT !.doc = doc.tokens], doc.tokens, now)]
     \/ req' = [req EXCEPT ![r] =
          Done([@ EXCEPT !.calls = @ \cup {"findThrew"}],
               Json(500, "Failed to create meeting", "store"))]
  /\ UNCHANGED <<now, nextSweep, stateStore, used, swept, tokensColl, minted, granted>>

\* Line 280 resumes: the provider answers the refresh with credentials, or
\* throws (line 290).  Without a refresh token the provider cannot refresh.
MeetingRefreshed(r) ==
  /\ req[r].pc = "refresh"
  /\ \/ /\ req[r].doc.refresh_token # 0
        /\ minted <= MaxTokens
        /\ \E rt \in {0, req[r].doc.refresh_token} :
             req' = [req EXCEPT ![r].pc = "refreshWrite",
                                ![r].cred = Issue(minted + 1, rt, now),
                                ![r].calls = @ \cup {"updateOne"}]
        /\ minted' = minted + 1
        /\ UNCHANGED granted
     \/ /\ req' = [req EXCEPT ![r] = RefreshFailed([@ EXCEPT !.calls = @ \cup {"refreshThrew"}])]
        /\ UNCHANGED <<minted, granted>>
  /\ UNCHANGED <<now, nextSweep, stateStore, used, swept, tokensColl>>

\* Lines 283-289 resume: the update lands, or the store throws (line 290).
MeetingRefreshStored(r) ==
  /\ req[r].pc = "refreshWrite"
  /\ \/ /\ tokensColl' = UpdateOne(tokensColl, UserId, req[r].cred, FALSE)
        /\ req' = [req EXCEPT ![r] = Proceed(@, req[r].cred, now)]
     \/ /\ req' = [req EXCEPT ![r] = RefreshFailed([@ EXCEPT !.calls = @ \cup {"updateThrew"}])]
        /\ UNCHANGED tokensColl
  /\ UNCHANGED <<now, nextSweep, stateStore, used, swept, minted, granted>>

\* Lines 166-181 and 321-328 resume: events.insert answers with a link, answers
\* without one (line 174), or throws; both failures end in the handler's catch.
MeetingInserted(r) ==
  /\ req[r].pc = "insert"
  /\ \/ req' = [req EXCEPT ![r] = Done(@, MeetLink("link"))]
     \/ req' = [req EXCEPT ![r] =
          Done([@ EXCEPT !.calls = @ \cup {"insertedNoLink"}],
               Json(500, "Failed to create meeting", "Failed to generate Google Meet link"))]
     \/ req' = [req EXCEPT ![r] =
          Done([@ EXCEPT !.calls = @ \cup {"insertThrew"}],
               Json(500, "Failed to create meeting", "provider"))]
  /\ UNCHANGED <<now, nextSweep, stateStore, used, swept, tokensColl, minted, granted>>

(* -------------------------------------------------------------- environment *)

\* The response has been sent; the slot is free for the next request.
Retire(r) ==
  /\ req[r].pc = "done"
  /\ req' = [req EXCEPT ![r] = Idle]
  /\ UNCHANGED <<now, nextSweep, stateStore, used, swept, tokensColl, minted, granted>>

\* Mutant of Expired: no entry is ever old enough.
ExpiredNone(m, t) == {}

\* Mutant of Expired: every entry is taken, whatever its age.
ExpiredAll(m, t) == DOMAIN m

\* Lines 333-340: the setInterval callback.
Expired(m, t) == {v \in DOMAIN m : t - m[v] > StateWindow}

Sweep ==
  /\ now = nextSweep
  /\ stateStore' = MapDelete(stateStore, Expired(stateStore, now))
  /\ swept' = swept \cup Expired(stateStore, now)
  /\ UNCHANGED used
  /\ nextSweep' = nextSweep + SweepInterval
  /\ UNCHANGED <<now, tokensColl, minted, granted, req>>

\* A minute passes; the timer fires before the clock passes its due time.
TickTo(max) ==
  /\ now < max
  /\ now < nextSweep
  /\ now' = now + 1
  /\ UNCHANGED <<nextSweep, stateStore, used, swept, tokensColl, minted, granted, req>>

Next ==
  \/ \E v \in StateVals : Login(v)
  \/ \E r \in Reqs : \E st \in StateVals \cup {""} : \E code \in BOOLEAN : CallbackArrive(r, st, code)
  \/ \E r \in Reqs : CallbackExchange(r)
  \/ \E r \in Reqs : CallbackStore(r)
  \/ \E r \in Reqs : \E body \in Bodies : MeetingArrive(r, body)
  \/ \E r \in Reqs : MeetingLoaded(r)
  \/ \E r \in Reqs : MeetingRefreshed(r)
  \/ \E r \in Reqs : MeetingRefreshStored(r)
  \/ \E r \in Reqs : MeetingInserted(r)
  \/ \E r \in Reqs : Retire(r)
  \/ Sweep
  \/ TickTo(MaxTime)

\* The whole service.  The two specifications below are its parts, each with
\* the actions of one flow and bounds that let TLC finish.
Spec == Init /\ [][Next]_vars

(* The authorization flow on its own, over a horizon that reaches past the
   state window: login, callback, the sweep and the clock. *)

\* The clock stops here in SpecAuth.
AuthHorizon == 12

InitAuth == Init /\ tokensColl = <<>>

CallbackReqs == {1}

NextAuth ==
  \/ \E v \in StateVals : Login(v)
  \/ \E r \in CallbackReqs : \E st \in StateVals \cup {""} : \E code \in BOOLEAN :
       CallbackArrive(r, st, code)
  \/ \E r \in Reqs : CallbackExchange(r)
  \/ \E r \in Reqs : CallbackStore(r)
  \/ \E r \in Reqs : Retire(r)
  \/ Sweep
  \/ TickTo(AuthHorizon)

SpecAuth == InitAuth /\ [][NextAuth]_vars

(* Meeting creation on its own: requests against a store that already holds
   whatever an earlier authorization left in it. *)

NextMeet ==
  \/ \E r \in Reqs : \E body \in Bodies : MeetingArrive(r, body)
  \/ \E r \in Reqs : MeetingLoaded(r)
  \/ \E r \in Reqs : MeetingRefreshed(r)
  \/ \E r \in Reqs : MeetingRefreshStored(r)
  \/ \E r \in Reqs : MeetingInserted(r)
  \/ \E r \in Reqs : Retire(r)
  \/ TickTo(MaxTime)

SpecMeet == Init /\ [][NextMeet]_vars


(* The grant and the refresh together: login, the callback and create-meeting
   requests with well-formed bodies, in both slots, over the minutes before the
   first sweep is due. *)
GrantStates == {StateSeq[1]}

GrantBodies == {BaseBody(MaxTime + MinLead + 1)}

\* The store starts empty, or with a record that can be refreshed: one that
\* has run out, or one issued as the process starts.
InitGrant ==
  /\ Init
  /\ tokensColl \in {<<>>} \cup {<<[userId |-> UserId, tokens |-> Issue(1, 1, t)]>> :
                                  t \in {StartClock - TokenLifetime, StartClock}}

NextGrant ==
  \/ \E v \in GrantStates : Login(v)
  \/ \E r \in Reqs : \E st \in GrantStates : CallbackArrive(r, st, TRUE)
  \/ \E r \in Reqs : CallbackExchange(r)
  \/ \E r \in Reqs : CallbackStore(r)
  \/ \E r \in Reqs : \E body \in GrantBodies : MeetingArrive(r, body)
  \/ \E r \in Reqs : MeetingLoaded(r)
  \/ \E r \in Reqs : MeetingRefreshed(r)
  \/ \E r \in Reqs : MeetingRefreshStored(r)
  \/ \E r \in Reqs : MeetingInserted(r)
  \/ \E r \in Reqs : Retire(r)
  \/ TickTo(MaxTime)

SpecGrant == InitGrant /\ [][NextGrant]_vars

(* The life of a state value: login, the callback and the sweep, one callback
   at a time, over enough minutes for the sweep to remove a value. *)
SweepHorizon == 17

SweepStates == {StateSeq[1]}

NextSweep ==
  \/ \E v \in SweepStates : Login(v)
  \/ \E r \in CallbackReqs : \E st \in SweepStates : \E code \in BOOLEAN : CallbackArrive(r, st, code)
  \/ \E r \in CallbackReqs : CallbackExchange(r)
  \/ \E r \in CallbackReqs : CallbackStore(r)
  \/ \E r \in CallbackReqs : Retire(r)
  \/ Sweep
  \/ TickTo(SweepHorizon)

SpecSweep == InitAuth /\ [][NextSweep]_vars

\* The same runs with time advancing and the timer firing whenever it is due.
SpecSweepFair ==
  /\ InitAuth
  /\ [][NextSweep]_vars
  /\ WF_vars(TickTo(SweepHorizon))
  /\ WF_vars(Sweep)

(* ================================================================ claims *)

\* Request r takes its first step as a callback in this step.
CallbackArrives(r) == req[r].pc = "idle" /\ req'[r].kind = "callback"

\* The answer of line 219.
InvalidState(rec) ==
  /\ rec.pc = "done"
  /\ rec.resp.status = 400
  /\ rec.resp.error = "Invalid state parameter"

(* C1: a state value is accepted by at most one callback per issue: a callback
   carrying a value that an earlier callback consumed (and login has not
   issued again) is answered 400 at the state check, calls no code exchange
   and leaves the token collection alone; and a callback that gets past the
   state check consumes its value. *)
C1_StateAcceptedOnce ==
  [][\A r \in Reqs :
       CallbackArrives(r) =>
         /\ req'[r].state \in used =>
              /\ InvalidState(req'[r])
              /\ req'[r].calls = {}
              /\ tokensColl' = tokensColl
         /\ ~InvalidState(req'[r]) =>
              /\ req'[r].state \notin used
              /\ req'[r].state \in used'
              /\ req'[r].state \notin DOMAIN stateStore']_vars

\* A second callback with a consumed value has been turned away.
C1_Witness ==
  \E r \in Reqs :
    /\ req[r].kind = "callback"
    /\ req[r].state \in used
    /\ InvalidState(req[r])

(* C2: a callback carrying a state value issued more than 10 minutes earlier is
   rejected with a 400 answer, whenever the sweep last ran, also when it is the
   first callback to present the value. *)
C2_StaleStateRejected ==
  [][\A r \in Reqs :
       (/\ CallbackArrives(r)
        /\ req'[r].state \in DOMAIN stateStore
        /\ now - stateStore[req'[r].state] > StateWindow)
         => (req'[r].pc = "done" /\ req'[r].resp.status = 400)]_vars

(* C3: the callback calls the code exchange only for a state value that login
   issued and no callback has consumed; the token collection changes only in
   the step that lands such a callback's upsert; and a callback whose state is
   missing or not live is answered 400 with the token collection and the state
   store unchanged. *)
C3_ExchangeOnlyForLiveState ==
  [][/\ \A r \in Reqs :
          CallbackArrives(r) =>
            IF req'[r].state # "" /\ req'[r].state \in DOMAIN stateStore
              THEN ~InvalidState(req'[r])
              ELSE /\ InvalidState(req'[r])
                   /\ req'[r].calls = {}
                   /\ tokensColl' = tokensColl
                   /\ stateStore' = stateStore
     /\ \A r \in Reqs :
          ("getToken" \in req'[r].calls /\ "getToken" \notin req[r].calls) =>
            /\ CallbackArrives(r)
            /\ req'[r].state \in DOMAIN stateStore
     /\ tokensColl' # tokensColl =>
          \E r \in Reqs :
            /\ req[r].pc = "cbWrite"
            /\ "getToken" \in req[r].calls
            /\ req'[r].pc = "done"]_vars

\* A callback with a state no login has outstanding was rejected, and a token
\* record written by an accepted callback is in the collection.
C3_Witness ==
  /\ Len(tokensColl) = 1
  /\ \E r \in Reqs :
       /\ req[r].kind = "callback"
       /\ req[r].state # ""
       /\ req[r].state \notin DOMAIN stateStore
       /\ req[r].state \notin used
       /\ InvalidState(req[r])


\* The token sets the collection holds for the fixed identity.
StoredTokens == {tokensColl[i].tokens : i \in Matching(tokensColl, UserId)}

\* Request r's findOne answers in this step (it does not throw).
ReadsStore(r) ==
  /\ req[r].pc = "findOne"
  /\ req'[r].pc # "findOne"
  /\ "findThrew" \notin req'[r].calls

\* The stored tokens are good for more than the grace period.
StoredFresh ==
  /\ StoredTokens # {}
  /\ \A t \in StoredTokens :
       /\ t # NullTokens
       /\ t.expiry_date # 0
       /\ now < t.expiry_date - GracePeriod

(* C4: when the stored record has now < expiry - 5 minutes at the time the
   handler reads it, the request goes on with exactly the stored tokens as its
   credentials, and neither then nor later calls the provider's refresh or
   writes to the collection. *)
C4_FreshTokensUsedUnchanged ==
  [][\A r \in Reqs :
       /\ (ReadsStore(r) /\ StoredFresh) =>
            /\ req'[r].calls \cap {"refresh", "updateOne"} = {}
            /\ tokensColl' = tokensColl
            /\ req'[r].pc \in {"insert", "done"}
            /\ req'[r].pc = "insert" => req'[r].cred \in StoredTokens
            /\ req'[r].pc = "done" => req'[r].resp.status = 400
       /\ (req[r].pc = "insert" /\ "refresh" \notin req[r].calls /\ req'[r] # req[r]) =>
            /\ req'[r].calls \cap {"refresh", "updateOne"} = {}
            /\ tokensColl' = tokensColl]_vars

\* An event has been submitted with the stored, still fresh tokens.
C4_Witness ==
  \E r \in Reqs :
    /\ req[r].pc = "insert"
    /\ req[r].calls = {"findOne", "insert"}
    /\ req[r].cred \in StoredTokens
    /\ now < req[r].cred.expiry_date - GracePeriod

\* Request r's update of the refreshed credentials lands in this step.
RefreshLands(r) ==
  /\ req[r].pc = "refreshWrite"
  /\ req'[r].pc # "refreshWrite"
  /\ "updateThrew" \notin req'[r].calls

(* C5: when a request that read an expired record holding a refresh token
   stores the credentials of a successful refresh, the collection then holds
   exactly one record for the fixed identity, and its expiry is strictly
   later than the expiry of the record the request had read. *)
C5_RefreshExtendsTheOneRecord ==
  [][\A r \in Reqs :
       (/\ RefreshLands(r)
        /\ req[r].doc.expiry_date # 0
        /\ req[r].doc.refresh_token # 0) =>
         /\ Cardinality(Matching(tokensColl', UserId)) = 1
         /\ \A i \in Matching(tokensColl', UserId) :
              tokensColl'[i].tokens.expiry_date > req[r].doc.expiry_date]_vars

\* A refresh has been stored and the request is about to submit its event.
C5_Witness ==
  \E r \in Reqs :
    /\ req[r].pc = "insert"
    /\ "updateOne" \in req[r].calls
    /\ req[r].doc.expiry_date # 0
    /\ req[r].doc.refresh_token # 0
    /\ tokensColl = <<[userId |-> UserId, tokens |-> req[r].cred]>>
    /\ req[r].cred.expiry_date > req[r].doc.expiry_date

(* C6: a request that read an expired record without a refresh token ends with
   401 "Authentication required". *)
C6_NoRefreshTokenMeansAuthRequired ==
  [][\A r \in Reqs :
       (/\ req[r].kind = "create"
        /\ req[r].pc = "refresh"
        /\ req[r].doc.expiry_date # 0
        /\ req[r].doc.refresh_token = 0
        /\ req'[r].pc = "done") =>
         /\ req'[r].resp.status = 401
         /\ req'[r].resp.error = "Authentication required"]_vars

(* C7: when the provider's refresh fails, the request ends at once with 401
   "Session expired", having made no update of the collection and submitted no
   event, and the collection is as it was. *)
C7_RefreshFailureEndsRequest ==
  [][\A r \in Reqs :
       ("refreshThrew" \in req'[r].calls /\ "refreshThrew" \notin req[r].calls) =>
         /\ req'[r].pc = "done"
         /\ req'[r].resp = Json(401, "Session expired", "")
         /\ req'[r].calls \cap {"updateOne", "insert"} = {}
         /\ tokensColl' = tokensColl]_vars

\* A request with a valid body was answered "Session expired" after the
\* provider refused the refresh.
C7_Witness ==
  \E r \in Reqs :
    /\ req[r].pc = "done"
    /\ req[r].calls = {"findOne", "refresh", "refreshThrew"}
    /\ req[r].resp.error = "Session expired"
    /\ tokensColl # <<>>

(* C8: when findOne finds no record for the fixed identity, the request (its
   body has passed validation) ends with 401 "Authentication required", has
   called neither the refresh nor the event insertion, and the collection is
   as it was. *)
C8_NoRecordMeansAuthRequired ==
  [][\A r \in Reqs :
       (ReadsStore(r) /\ StoredTokens = {}) =>
         /\ req'[r].pc = "done"
         /\ req'[r].resp = Json(401, "Authentication required", "")
         /\ req'[r].calls = {"findOne"}
         /\ tokensColl' = tokensColl]_vars

\* A valid request against an empty collection was answered 401.
C8_Witness ==
  \E r \in Reqs :
    /\ req[r].pc = "done"
    /\ validateMeetingInput(req[r].body) = NoResp
    /\ req[r].resp.status = 401
    /\ req[r].resp.error = "Authentication required"
    /\ tokensColl = <<>>

\* The string holds an "@".
HasAt(str) == \E i \in 1..Len(str) : str[i] = "@"

(* C9: a request whose attendees list is empty, or holds a string without an
   "@", is answered with a 400 validation error and its event is never
   submitted to the provider. *)
C9_BadAttendeesNeverSubmitted ==
  \A r \in Reqs :
    (/\ req[r].kind = "create"
     /\ req[r].body.attendees.kind = "array"
     /\ \/ req[r].body.attendees.items = <<>>
        \/ \E k \in 1..Len(req[r].body.attendees.items) :
             ~HasAt(req[r].body.attendees.items[k])) =>
      /\ "insert" \notin req[r].calls
      /\ req[r].pc = "done" => req[r].resp.status = 400

(* C10: the answer to an insertion the provider accepted without returning a
   link differs in status or error category from the answer to an insertion
   the provider call failed on. *)
C10_MissingLinkToldApart ==
  \A r \in Reqs : \A q \in Reqs :
    (/\ req[r].pc = "done"
     /\ req[q].pc = "done"
     /\ "insertedNoLink" \in req[r].calls
     /\ "insertThrew" \in req[q].calls) =>
      <<req[r].resp.status, req[r].resp.error>> # <<req[q].resp.status, req[q].resp.error>>

\* Request r takes its first step as a create-meeting request in this step.
MeetingArrives(r) == req[r].pc = "idle" /\ req'[r].kind = "create"

\* A body with a required field missing, a start or end that is not a date,
\* or an attendee that does not fit local@domain.
Malformed(body) ==
  \/ body.summary = ""
  \/ body.startTime = Absent
  \/ body.endTime = Absent
  \/ body.attendees.kind = "absent"
  \/ body.startTime = Unparseable
  \/ body.endTime = Unparseable
  \/ /\ body.attendees.kind = "array"
     /\ \E k \in 1..Len(body.attendees.items) : ~EmailPattern(body.attendees.items[k])

(* C11: a create-meeting request with a required field missing, an
   unparseable start or end time, or an attendee failing the local@domain
   pattern is answered 400 in the step it arrives in: it has read nothing from
   the collection, written nothing to it, and called the provider for
   nothing. *)
C11_MalformedRejectedFirst ==
  [][\A r \in Reqs :
       (MeetingArrives(r) /\ Malformed(req'[r].body)) =>
         /\ req'[r].pc = "done"
         /\ req'[r].resp.status = 400
         /\ req'[r].calls = {}
         /\ tokensColl' = tokensColl
         /\ minted' = minted]_vars

\* A request with an unparseable end time has been turned away.
C11_Witness ==
  \E r \in Reqs :
    /\ req[r].kind = "create"
    /\ req[r].body.endTime = Unparseable
    /\ req[r].pc = "done"
    /\ req[r].resp = Json(400, "Invalid date format", "")
    /\ req[r].calls = {}

(* C12: the collection holds at most one record for the fixed identity, and a
   record, once there, stays: every later write overwrites it in place, none
   adds a second record and none removes it. *)
C12_OneRecordKept ==
  [][/\ Cardinality(Matching(tokensColl, UserId)) <= 1
     /\ Cardinality(Matching(tokensColl', UserId)) <= 1
     /\ Len(tokensColl') <= 1
     /\ Matching(tokensColl, UserId) # {} => Matching(tokensColl', UserId) # {}]_vars

\* A callback's upsert and a refresh's update have both landed, and one
\* record is there.
C12_Witness ==
  /\ Cardinality(Matching(tokensColl, UserId)) = 1
  /\ \E r \in Reqs : \E q \in Reqs :
       /\ req[r].kind = "callback"
       /\ req[r].pc = "done"
       /\ req[r].resp = Redirect("/api/auth-success")
       /\ req[q].kind = "create"
       /\ req[q].pc = "insert"
       /\ "updateOne" \in req[q].calls

(* C13: a create-meeting request during which a store operation failed, the
   read of the record or the write of refreshed credentials, is answered 500
   and never 401. *)
C13_StoreFailureIs500 ==
  \A r \in Reqs :
    (/\ req[r].kind = "create"
     /\ req[r].pc = "done"
     /\ req[r].calls \cap {"findThrew", "updateThrew"} # {}) =>
      /\ req[r].resp.status = 500
      /\ req[r].resp.status # 401

\* The sweep runs in this step and finds v older than the window.
SweptOld(v) ==
  /\ now = nextSweep
  /\ nextSweep' # nextSweep
  /\ now - stateStore[v] > StateWindow

(* C14, as claimed: a state value leaves the map only in a sweep that finds it
   older than 10 minutes, or in the step of a callback that carries it and has
   not failed; a callback that carries it and fails leaves it in the map. *)
C14_StateLeavesOnlyOnSuccess ==
  [][\A v \in DOMAIN stateStore :
       v \notin DOMAIN stateStore' =>
         \/ SweptOld(v)
         \/ \E r \in Reqs :
              /\ CallbackArrives(r)
              /\ req'[r].state = v
              /\ req'[r].pc # "done"]_vars

(* C14: a state value leaves the map only in a sweep that finds it older than
   10 minutes, or in the step of a callback that carries it and passes the
   state check; that callback removes it before it looks at the code, so the
   value is gone as well when the code is missing or the exchange fails
   later. *)
C14_StateLeavesOnPresentation ==
  [][/\ \A v \in DOMAIN stateStore :
          v \notin DOMAIN stateStore' =>
            \/ SweptOld(v)
            \/ \E r \in Reqs :
                 /\ CallbackArrives(r)
                 /\ req'[r].state = v
                 /\ ~InvalidState(req'[r])
     /\ \A r \in Reqs :
          (CallbackArrives(r) /\ req'[r].state \in DOMAIN stateStore) =>
            /\ req'[r].state \notin DOMAIN stateStore'
            /\ ~InvalidState(req'[r])
     /\ \A r \in Reqs :
          (/\ req[r].kind = "callback"
           /\ req[r].pc \in {"getToken", "cbWrite"}
           /\ req'[r] # req[r]) =>
            stateStore' = stateStore]_vars

\* A callback brought a live value without a code: it was answered 400 and
\* the value is gone, though no sweep took it.
C14_Witness ==
  \E r \in Reqs :
    /\ req[r].kind = "callback"
    /\ req[r].pc = "done"
    /\ req[r].resp = Json(400, "Authorization code is missing", "")
    /\ req[r].state \in used
    /\ req[r].state \notin swept
    /\ req[r].state \notin DOMAIN stateStore

(* C15: when the update of a successful refresh lands, the stored record keeps
   the refresh token the request had read if the provider's answer carried
   none, and so can be refreshed again. *)
C15_RefreshKeepsRefreshToken ==
  [][\A r \in Reqs :
       (/\ RefreshLands(r)
        /\ req[r].cred.refresh_token = 0
        /\ StoredTokens = {req[r].doc}) =>
         \A t \in StoredTokens' :
           /\ t.refresh_token = req[r].doc.refresh_token
           /\ t.refresh_token # 0]_vars

(* C16: whatever other request is refreshing at the same time, a request
   whose update of refreshed credentials lands submits its event with the
   credentials its own refresh returned, and the collection then holds exactly
   one record, with those credentials; between such landings the collection
   does not change, so after two overlapping refreshes it holds what the
   later landing wrote. *)
C16_OverlappingRefreshesLastWins ==
  [][/\ \A r \in Reqs :
          RefreshLands(r) =>
            /\ req'[r].pc = "insert" => req'[r].cred = req[r].cred
            /\ StoredTokens # {} =>
                 tokensColl' = <<[userId |-> UserId, tokens |-> req[r].cred]>>
     /\ (\A r \in Reqs : ~RefreshLands(r)) => tokensColl' = tokensColl]_vars

\* Two requests read the same expired record, both refreshed, both updates
\* landed; each is submitting with its own credentials and the collection
\* holds those of one of them.
C16_Witness ==
  /\ req[1].pc = "insert"
  /\ req[2].pc = "insert"
  /\ "updateOne" \in req[1].calls
  /\ "updateOne" \in req[2].calls
  /\ req[1].doc = req[2].doc
  /\ req[1].cred # req[2].cred
  /\ req[1].cred.access_token \notin {0, req[1].doc.access_token}
  /\ req[2].cred.access_token \notin {0, req[2].doc.access_token}
  /\ StoredTokens \in {{req[1].cred}, {req[2].cred}}

\* Request r checks the lead time in this step: it has its credentials and
\* either submits the event or is answered.
ChecksLead(r) ==
  /\ req[r].kind = "create"
  /\ \/ req[r].pc = "findOne" /\ "findThrew" \notin req'[r].calls
     \/ req[r].pc = "refreshWrite" /\ "updateThrew" \notin req'[r].calls
  /\ \/ req'[r].pc = "insert"
     \/ req'[r].pc = "done" /\ req'[r].resp.status = 400

(* C17: a request submits its event only if the start time is at least 2
   minutes after the clock at the step of the check; a request whose start
   time is earlier than that is answered 400 with that clock value as the
   current time and that value plus 2 minutes as the earliest start, and its
   event is not submitted. *)
C17_LeadTimeEnforced ==
  [][\A r \in Reqs :
       /\ (req[r].pc # "insert" /\ req'[r].pc = "insert") =>
            /\ ChecksLead(r)
            /\ DateParse(req'[r].body.startTime) >= now + MinLead
       /\ (ChecksLead(r) /\ DateParse(req[r].body.startTime) < now + MinLead) =>
            /\ req'[r].pc = "done"
            /\ req'[r].resp.status = 400
            /\ req'[r].resp.currentTime = now
            /\ req'[r].resp.earliestPossibleStart = now + MinLead
            /\ "insert" \notin req'[r].calls]_vars

\* A request whose start lay one minute after the check has been turned away.
C17_Witness ==
  \E r \in Reqs :
    /\ req[r].kind = "create"
    /\ req[r].pc = "done"
    /\ req[r].resp = TooSoon(now)
    /\ DateParse(req[r].body.startTime) = now + 1
    /\ "insert" \notin req[r].calls

\* The latest sweep an entry can wait for comes a window and an interval
\* after its issue.
LongestStay == StateWindow + SweepInterval

(* C18: with time advancing and the sweep firing when due, a value login has
   put into the map is eventually out of it again, whether or not a callback
   presents it (for every value issued early enough for the run to reach the
   sweep that takes it). *)
C18_IssuedStateEventuallyRemoved ==
  \A v \in StateVals :
    (v \in DOMAIN stateStore /\ stateStore[v] + LongestStay <= SweepHorizon)
      ~> (v \notin DOMAIN stateStore)

\* The sweep has removed a value that no callback had presented.
C18_Witness ==
  \E v \in StateVals :
    /\ v \in swept
    /\ v \notin used
    /\ v \notin DOMAIN stateStore
    /\ \A r \in Reqs : req[r].pc = "idle"

\* Request r's upsert of the granted tokens lands in this step.
GrantLands(r) ==
  /\ req[r].pc = "cbWrite"
  /\ req'[r].resp = Redirect("/api/auth-success")

(* C19, as claimed: credentials refreshed from a record that was read before a
   callback stored its grant never overwrite the granted tokens: when the
   update of a refresh lands while the collection holds granted tokens other
   than the record the request had read, the collection is left as it is. *)
C19_GrantNeverOverwritten ==
  [][\A r \in Reqs :
       (/\ RefreshLands(r)
        /\ \E t \in StoredTokens : t.access_token \in granted /\ t # req[r].doc) =>
         tokensColl' = tokensColl]_vars

(* C19: between a callback storing a grant and a create-meeting refreshing an
   expired record the later write wins: each of the two writes, when it lands,
   leaves the one record holding exactly the tokens it wrote, be they the
   grant or credentials refreshed from a record read before the grant was
   stored. *)
C19_LaterWriteWins ==
  [][\A r \in Reqs :
       /\ (RefreshLands(r) /\ StoredTokens # {}) => StoredTokens' = {req[r].cred}
       /\ GrantLands(r) => StoredTokens' = {req[r].cred}]_vars

\* A callback has stored its grant, and the collection now holds the
\* credentials a request refreshed from the record it had read before.
C19_Witness ==
  \E r \in Reqs : \E q \in Reqs :
    /\ req[q].kind = "callback"
    /\ req[q].resp = Redirect("/api/auth-success")
    /\ req[r].kind = "create"
    /\ req[r].pc = "insert"
    /\ "updateOne" \in req[r].calls
    /\ req[r].doc.access_token \notin granted
    /\ req[r].cred.access_token \notin granted
    /\ StoredTokens = {req[r].cred}

\* Request r is answered 400 in this step.
Answered400(r) ==
  /\ req[r].kind \in {"none", "create"}
  /\ req[r].pc # "done"
  /\ req'[r].kind = "create"
  /\ req'[r].pc = "done"
  /\ req'[r].resp.status = 400

(* C20, as claimed: a request answered 400 has called the provider for
   nothing, neither a refresh nor an insertion, and has written nothing to
   the collection. *)
C20_Rejected400DidNothing ==
  \A r \in Reqs :
    (req[r].kind = "create" /\ req[r].pc = "done" /\ req[r].resp.status = 400) =>
      req[r].calls \cap {"refresh", "updateOne", "insert"} = {}

(* C20: a request answered 400 has submitted no event.  Answered by the field
   validation, it has called the provider for nothing and has neither read
   nor written the collection.  Answered by the lead-time check, it has read
   the record; if the record was fresh it has called the provider for nothing
   and written nothing, and if the record had run out it has called the
   provider's refresh and its update of the refreshed credentials has landed
   in the step of the answer. *)
C20_Rejected400SubmittedNothing ==
  [][\A r \in Reqs :
       Answered400(r) =>
         /\ "insert" \notin req'[r].calls
         /\ req[r].pc \in {"idle", "findOne", "refreshWrite"}
         /\ req[r].pc = "idle" =>
              /\ req'[r].calls = {}
              /\ tokensColl' = tokensColl
         /\ req[r].pc = "findOne" =>
              /\ req'[r].calls = {"findOne"}
              /\ tokensColl' = tokensColl
              /\ req'[r].resp = TooSoon(now)
         /\ req[r].pc = "refreshWrite" =>
              /\ req'[r].calls = {"findOne", "refresh", "updateOne"}
              /\ isTokenExpired(req[r].doc, now)
              /\ RefreshLands(r)
              /\ req'[r].resp = TooSoon(now)]_vars

\* A request that read an expired record refreshed it, stored the refreshed
\* credentials, and was then answered 400 by the lead-time check.
C20_Witness ==
  \E r \in Reqs :
    /\ req[r].kind = "create"
    /\ req[r].pc = "done"
    /\ req[r].resp.status = 400
    /\ req[r].resp.earliestPossibleStart = now + MinLead
    /\ req[r].calls = {"findOne", "refresh", "updateOne"}
    /\ \E t \in StoredTokens : t.access_token > 1

====
